---- MODULE Spec2Model ----
(***************************************************************************)
(* Model of htmresearch/frameworks/classification/network_factory.py:      *)
(* the assembly of a classification network of sensor, SP, TM, TP and      *)
(* classifier regions (createAndConfigureNetwork, createNetwork) and the   *)
(* learning toggle (setRegionLearning).                                    *)
(*                                                                         *)
(* The nupic Network is modelled by what the factory does to it: the       *)
(* regions added, the attributes a region exposes through getSelf(), the   *)
(* parameters set through setParameter and the links made.  A Python       *)
(* exception ends the run: pc = "raised" and error says which one.         *)
(***************************************************************************)
EXTENDS Integers, Sequences, FiniteSets, TLC

\* ------------------------------------------------------------------ bounds

\* Widths (encoder n, columnCount, cellsPerColumn) range over 1..MaxWidth.
MaxWidth == 2
\* Field values of the data source and configured minval/maxval: 0..MaxVal.
MaxVal == 1
\* Number of setRegionLearning calls made on a returned network.
MaxCalls == 2
\* The width n of each encoder a configuration names.
EncoderBits == 1

\* Python's None for a number (a key that is absent, or maps to None).
NoVal == -1

\* ------------------------------------------------------------ configuration

SensorKey == "sensorRegionConfig"
SpKey == "spRegionConfig"
TmKey == "tmRegionConfig"
TpKey == "tpRegionConfig"
ClassifierKey == "classifierRegionConfig"

ConfigKeys == {SensorKey, SpKey, TmKey, TpKey, ClassifierKey}
OptionalKeys == {SpKey, TmKey, TpKey}

\* The order in which networkConfig.keys() lists the keys (a dict's order).
KeyOrders ==
  { <<SensorKey, SpKey, TmKey, TpKey, ClassifierKey>>,
    <<TpKey, ClassifierKey, TmKey, SensorKey, SpKey>> }

\* The value of a stage config's "regionEnabled" key, "absent" when the
\* stage config has no such key.
Truthy(flag) == flag = "true"

\* One encoder's parameter dict inside sensorRegionConfig["encoders"].
NoEncoderSpec == [present |-> FALSE, n |-> 0, minval |-> NoVal, maxval |-> NoVal]

\* A scalar encoder's dict, with no minval/maxval or with some.
ScalarEncoderSpecs ==
  { [present |-> TRUE, n |-> EncoderBits, minval |-> b[1], maxval |-> b[2]] :
      b \in {<<NoVal, NoVal>>, <<0, MaxVal>>} }

OtherEncoderSpec == [present |-> TRUE, n |-> EncoderBits, minval |-> NoVal, maxval |-> NoVal]

\* sensorRegionConfig["encoders"]: the key absent, None, a non-empty list
\* (present but not a mapping) or a dict that may hold an encoder named
\* "scalarEncoder" and one other encoder.  The dict holding neither is {}.
EncodersValues ==
  { [kind |-> k, scalarEncoder |-> NoEncoderSpec, otherEncoder |-> NoEncoderSpec] :
      k \in {"absent", "None", "list", "dict"} }
  \cup
  { [kind |-> "dict", scalarEncoder |-> s, otherEncoder |-> o] :
      s \in ScalarEncoderSpecs \cup {NoEncoderSpec},
      o \in {NoEncoderSpec, OtherEncoderSpec} }

\* An encoder object: a MultiEncoder built from a dict, or one the caller
\* constructed ("external"); "None" is Python's None, "list" the list that
\* was configured in place of a mapping, "unset" a sensor not yet bound.
NoneEncoder == [kind |-> "None", width |-> 0, minval |-> NoVal, maxval |-> NoVal]
UnsetEncoder == [kind |-> "unset", width |-> 0, minval |-> NoVal, maxval |-> NoVal]
ListAsEncoder == [kind |-> "list", width |-> 0, minval |-> NoVal, maxval |-> NoVal]

ExternalEncoders ==
  { [kind |-> "external", width |-> w, minval |-> NoVal, maxval |-> NoVal] :
      w \in 1..MaxWidth }

\* regionParams of a stage; NoVal for a key the stage type does not have.
RegionParams(inputWidth, columnCount, cellsPerColumn) ==
  [inputWidth |-> inputWidth, columnCount |-> columnCount,
   cellsPerColumn |-> cellsPerColumn]

NoParams == RegionParams(NoVal, NoVal, NoVal)

StageConfig(name, flag, params) ==
  [regionName |-> name, regionEnabled |-> flag, regionParams |-> params]

SensorConfig(name, flag, params, encoders) ==
  [regionName |-> name, regionEnabled |-> flag, regionParams |-> params,
   encoders |-> encoders]

\* The inputWidth a configuration file declares before assembly.
DeclaredWidths == {0, MaxWidth}

AllNetworkConfigs ==
  { [sensorRegionConfig |-> SensorConfig("sensor", fs, NoParams, enc),
     spRegionConfig |-> StageConfig("SP", fsp, RegionParams(d, csp, NoVal)),
     tmRegionConfig |-> StageConfig("TM", ftm, RegionParams(d, ctm, cpc)),
     tpRegionConfig |-> StageConfig("TP", ftp, RegionParams(d, NoVal, NoVal)),
     classifierRegionConfig |-> StageConfig("classifier", fc, NoParams)] :
      fs \in {"absent", "true"}, fc \in {"absent", "true", "false"},
      fsp \in {"true", "false"}, ftm \in {"true", "false"}, ftp \in {"true", "false"},
      enc \in EncodersValues, d \in DeclaredWidths,
      csp \in 1..MaxWidth, ctm \in 1..MaxWidth, cpc \in 1..MaxWidth }

\* The parameters of a disabled stage are never read: one value of each is
\* enough.
NetworkConfigs ==
  { c \in AllNetworkConfigs :
      /\ ~Truthy(c.spRegionConfig.regionEnabled)
           => c.spRegionConfig.regionParams.columnCount = 1
      /\ ~Truthy(c.tmRegionConfig.regionEnabled)
           => /\ c.tmRegionConfig.regionParams.columnCount = 1
              /\ c.tmRegionConfig.regionParams.cellsPerColumn = 1 }

\* ------------------------------------------------------------------- state

VARIABLES
  entry,               \* the function the caller invoked
  encoder,             \* the encoder argument (NoneEncoder by default)
  keyOrder,            \* order of networkConfig.keys()
  classifierSpec,      \* inputs of the classifier's Spec, {} until getSpec() is called
  givenConfig,         \* the configuration as the caller passed it
  networkConfig,       \* the caller's configuration dict (mutable)
  dataSource,          \* what getFieldMin/getFieldMax answered, NoVal until asked
  pc,                  \* position in the assembly
  error,               \* the exception raised, type "" when none
  regions,             \* network.regions: a record of getSelf() attributes each
  parameters,          \* the <<region, parameter, value>> a region's parameters hold
  sensorEncoder,       \* sensorRegion.encoder
  links,               \* the links of the network
  previousRegion,      \* createNetwork's local
  previousRegionWidth, \* createNetwork's local
  networkRegions,      \* createNetwork's local: the enabled config keys
  calls,               \* learningMode of each setRegionLearning call so far
  returned             \* what the last setRegionLearning call returned

vars == <<entry, encoder, keyOrder, classifierSpec, givenConfig, networkConfig, dataSource, pc, error, regions,
          parameters, sensorEncoder, links, previousRegion, previousRegionWidth,
          networkRegions, calls, returned>>

inputs == <<entry, encoder, keyOrder, givenConfig>>

\* The observed minimum and maximum of a field.
DataSources == { [min |-> lo, max |-> hi] : lo \in 0..MaxVal, hi \in 0..MaxVal }

NotAsked == [min |-> NoVal, max |-> NoVal]

\* The inputs a classifier region type may declare.
ClassifierSpecs == { {"bottomUpIn", "categoryIn"},
                     {"bottomUpIn", "categoryIn", "partitionIn"} }

NoError == [type |-> "", what |-> "", out |-> NoVal, inp |-> NoVal]

Raise(type, what) == [type |-> type, what |-> what, out |-> NoVal, inp |-> NoVal]

Init ==
  /\ entry \in {"createNetwork", "createAndConfigureNetwork"}
  /\ encoder \in ExternalEncoders \cup {NoneEncoder}
  /\ keyOrder \in KeyOrders
  /\ classifierSpec = {}
  /\ networkConfig \in NetworkConfigs
  /\ givenConfig = networkConfig
  /\ dataSource = NotAsked
  /\ pc = entry
  /\ error = NoError
  /\ regions = {}
  /\ parameters = {}
  /\ sensorEncoder = UnsetEncoder
  /\ links = {}
  /\ previousRegion = ""
  /\ previousRegionWidth = NoVal
  /\ networkRegions = <<>>
  /\ calls = <<>>
  /\ returned = <<>>

\* ----------------------------------------------------------- the network

RegionNames == {r.name : r \in regions}

Region(name) == CHOOSE r \in regions : r.name = name

\* network.addRegion(regionName, regionType, simplejson.dumps(regionParams)):
\* the region is built from the regionParams as they are at this moment.
addRegisteredRegion(network, regionConfig) ==
  network \cup { [name |-> regionConfig.regionName,
                  inputWidth |-> regionConfig.regionParams.inputWidth,
                  columnCount |-> regionConfig.regionParams.columnCount,
                  cellsPerColumn |-> regionConfig.regionParams.cellsPerColumn] }

\* region.setParameter(name, value)
setParameter(params, region, name, value) ==
  { t \in params : ~(t[1] = region /\ t[2] = name) } \cup { <<region, name, value>> }

\* region.getParameter(name); only used on a parameter the region holds.
getParameter(params, region, name) ==
  (CHOOSE t \in params : t[1] = region /\ t[2] = name)[3]

HasParameter(params, region, name) ==
  \E t \in params : t[1] = region /\ t[2] = name

\* The parameters of a region the framework has just built from regionParams
\* and its own defaults, before the factory touches them.
BuiltParameters(params, region, learningMode, inferenceMode) ==
  setParameter(setParameter(params, region, "learningMode", learningMode),
               region, "inferenceMode", inferenceMode)

\* A creation that leaves learningMode as the framework built it.
createRegionParametersInferenceOnly(params, region) ==
  setParameter(params, region, "inferenceMode", TRUE)

\* _createRegion, after _addRegisteredRegion: learning off, inference on.
createRegionParameters(params, region) ==
  setParameter(setParameter(params, region, "learningMode", FALSE),
               region, "inferenceMode", TRUE)

Link(src, dest, srcOutput, destInput) ==
  [src |-> src, dest |-> dest, srcOutput |-> srcOutput, destInput |-> destInput]

\* network.link(a, b, "UniformLink", ""): the default output to the default input.
PrimaryLink(src, dest) == Link(src, dest, "", "")

\* A linking that takes the primary input from the sensor every time.
linkRegionsFromSensor(network, sensorRegionName, previousRegionName, currentRegionName) ==
  network \cup
    { PrimaryLink(sensorRegionName, currentRegionName),
      Link(sensorRegionName, currentRegionName, "resetOut", "resetIn"),
      Link(sensorRegionName, currentRegionName, "sequenceIdOut", "sequenceIdIn") }

\* A linking that propagates the reset only.
linkRegionsResetOnly(network, sensorRegionName, previousRegionName, currentRegionName) ==
  network \cup
    { PrimaryLink(previousRegionName, currentRegionName),
      Link(sensorRegionName, currentRegionName, "resetOut", "resetIn") }

linkRegions(network, sensorRegionName, previousRegionName, currentRegionName) ==
  network \cup
    { PrimaryLink(previousRegionName, currentRegionName),
      Link(sensorRegionName, currentRegionName, "resetOut", "resetIn"),
      Link(sensorRegionName, currentRegionName, "sequenceIdOut", "sequenceIdIn") }

\* A validation that lets unequal widths through.
validateRegionWidthsLax(prevWidth, currentRegionWidth) ==
  prevWidth <= currentRegionWidth

\* _validateRegionWidths: TRUE when it returns, FALSE when it raises ValueError.
validateRegionWidths(prevWidth, currentRegionWidth) ==
  prevWidth = currentRegionWidth

WidthError(prevWidth, currentRegionWidth) ==
  [type |-> "ValueError", what |-> "Region widths do not fit",
   out |-> prevWidth, inp |-> currentRegionWidth]

\* ---------------------------------------------------------------- encoders

\* Python's "not encoders" for a value of sensorRegionConfig["encoders"]
\* (an absent key read with .get() is None).
Falsy(encoders) ==
  \/ encoders.kind \in {"absent", "None"}
  \/ /\ encoders.kind = "dict"
     /\ ~encoders.scalarEncoder.present
     /\ ~encoders.otherEncoder.present

\* _createEncoder: raises TypeError unless given a dict, else the MultiEncoder
\* of the dict's encoders, as wide as their widths together.
createEncoder(encoders) ==
  IF encoders.kind # "dict"
    THEN [raised |-> TRUE, encoder |-> NoneEncoder]
    ELSE [raised |-> FALSE,
          encoder |-> [kind |-> "MultiEncoder",
                       width |-> encoders.scalarEncoder.n + encoders.otherEncoder.n,
                       minval |-> encoders.scalarEncoder.minval,
                       maxval |-> encoders.scalarEncoder.maxval]]

\* A bound injection that keeps a minval the configuration already has.
setScalarEncoderMinMaxKeep(config, source) ==
  [config EXCEPT !.sensorRegionConfig.encoders.scalarEncoder.minval =
                    IF @ = NoVal THEN source.min ELSE @,
                 !.sensorRegionConfig.encoders.scalarEncoder.maxval = source.max]

\* _setScalarEncoderMinMax
setScalarEncoderMinMax(config, source) ==
  [config EXCEPT !.sensorRegionConfig.encoders.scalarEncoder.minval = source.min,
                 !.sensorRegionConfig.encoders.scalarEncoder.maxval = source.max]

\* ------------------------------------------------ createAndConfigureNetwork

assemblyVars == <<regions, parameters, sensorEncoder, links, previousRegion,
                  previousRegionWidth, networkRegions>>

\* Lines 227-234, up to the call of createNetwork.
Configure ==
  /\ pc = "createAndConfigureNetwork"
  /\ LET encoderDict == networkConfig.sensorRegionConfig.encoders IN
       IF Falsy(encoderDict) /\ encoder.kind = "None"
         THEN /\ error' = Raise("ValueError", "No encoder specified")
              /\ pc' = "raised"
              /\ UNCHANGED <<networkConfig, dataSource>>
         ELSE IF encoderDict.kind # "dict"
           THEN \* None.get / list.get
                /\ error' = Raise("AttributeError", "get")
                /\ pc' = "raised"
                /\ UNCHANGED <<networkConfig, dataSource>>
           ELSE /\ IF encoderDict.scalarEncoder.present
                     THEN \E source \in DataSources :
                            /\ source.min <= source.max
                            /\ dataSource' = source
                            /\ networkConfig' = setScalarEncoderMinMax(networkConfig, source)
                     ELSE UNCHANGED <<networkConfig, dataSource>>
                /\ pc' = "createNetwork"
                /\ UNCHANGED error
  /\ UNCHANGED <<inputs, classifierSpec, assemblyVars, calls, returned>>

\* ------------------------------------------------------------ createNetwork

\* _createSensorRegion's choice of the encoder (lines 122-135), given that
\* the "encoders" key exists.
sensorRegionEncoder(encoders, encoderArg) ==
  IF Falsy(encoders)
    THEN [raised |-> FALSE, encoder |-> encoderArg]
    ELSE IF encoders.kind = "dict"
      THEN createEncoder(encoders)
      ELSE [raised |-> FALSE, encoder |-> ListAsEncoder]

\* Lines 256-269: the sensor region, then the width of its encoder.
CreateSensor ==
  /\ pc = "createNetwork"
  /\ LET regionConfig == networkConfig.sensorRegionConfig
         made == sensorRegionEncoder(regionConfig.encoders, encoder) IN
       IF regionConfig.encoders.kind = "absent"
         THEN /\ error' = Raise("KeyError", "encoders")
              /\ pc' = "raised"
              /\ UNCHANGED <<regions, sensorEncoder, previousRegion, previousRegionWidth>>
         ELSE /\ regions' = addRegisteredRegion(regions, regionConfig)
              /\ IF made.raised
                   THEN /\ error' = Raise("TypeError", "Encoders specified in incorrect format")
                        /\ pc' = "raised"
                        /\ UNCHANGED <<sensorEncoder, previousRegion, previousRegionWidth>>
                   ELSE /\ sensorEncoder' = made.encoder
                        /\ IF made.encoder.kind \in {"None", "list"}
                             THEN /\ error' = Raise("AttributeError", "getWidth")
                                  /\ pc' = "raised"
                                  /\ UNCHANGED <<previousRegion, previousRegionWidth>>
                             ELSE /\ previousRegion' = regionConfig.regionName
                                  /\ previousRegionWidth' = made.encoder.width
                                  /\ pc' = "networkRegions"
                                  /\ UNCHANGED error
  /\ UNCHANGED <<inputs, classifierSpec, dataSource, networkConfig, parameters, links,
                 networkRegions, calls, returned>>

Range(seq) == {seq[i] : i \in 1..Len(seq)}

\* Lines 271-272: [r for r in networkConfig.keys() if networkConfig[r]["regionEnabled"]]
enabledRegions(config, order) ==
  SelectSeq(order, LAMBDA r : Truthy(config[r].regionEnabled))

ComputeNetworkRegions ==
  /\ pc = "networkRegions"
  /\ IF \E r \in Range(keyOrder) : networkConfig[r].regionEnabled = "absent"
       THEN /\ error' = Raise("KeyError", "regionEnabled")
            /\ pc' = "raised"
            /\ UNCHANGED networkRegions
       ELSE /\ networkRegions' = enabledRegions(networkConfig, keyOrder)
            /\ pc' = "sp"
            /\ UNCHANGED error
  /\ UNCHANGED <<inputs, classifierSpec, dataSource, networkConfig, regions, parameters,
                 sensorEncoder, links, previousRegion, previousRegionWidth, calls, returned>>

\* _createRegion (lines 169-178) for the stage of regionConfig; the framework
\* builds the region with some learningMode and inferenceMode of its own.
createRegion(params, region, builtLearning, builtInference) ==
  createRegionParameters(BuiltParameters(params, region, builtLearning, builtInference),
                         region)

\* A write that takes the width for the stage's columnCount as well.
setInputWidthAndColumns(config, key, width) ==
  [config EXCEPT ![key].regionParams.inputWidth = width,
                 ![key].regionParams.columnCount = width]

\* regionParams["inputWidth"] = width, the write each optional stage makes
\* to the configuration before its region is created.
setInputWidth(config, key, width) ==
  [config EXCEPT ![key].regionParams.inputWidth = width]

\* Lines 274-287
CreateSP ==
  /\ pc = "sp"
  /\ IF SpKey \in Range(networkRegions)
       THEN LET config == setInputWidth(networkConfig, SpKey, sensorEncoder.width)
                regionConfig == config.spRegionConfig
                regionName == regionConfig.regionName
                network == addRegisteredRegion(regions, regionConfig)
                spRegion == CHOOSE r \in network : r.name = regionName
            IN /\ networkConfig' = config
               /\ regions' = network
               /\ \E lm \in BOOLEAN, im \in BOOLEAN :
                    parameters' = createRegion(parameters, regionName, lm, im)
               /\ IF validateRegionWidths(previousRegionWidth, spRegion.inputWidth)
                    THEN /\ links' = linkRegions(links, networkConfig.sensorRegionConfig.regionName,
                                                 previousRegion, regionName)
                         /\ previousRegion' = regionName
                         /\ previousRegionWidth' = spRegion.columnCount
                         /\ pc' = "tm"
                         /\ UNCHANGED error
                    ELSE /\ error' = WidthError(previousRegionWidth, spRegion.inputWidth)
                         /\ pc' = "raised"
                         /\ UNCHANGED <<links, previousRegion, previousRegionWidth>>
       ELSE /\ pc' = "tm"
            /\ UNCHANGED <<networkConfig, regions, parameters, links, previousRegion,
                           previousRegionWidth, error>>
  /\ UNCHANGED <<inputs, classifierSpec, dataSource, sensorEncoder, networkRegions,
                 calls, returned>>

\* Lines 289-305
CreateTM ==
  /\ pc = "tm"
  /\ IF TmKey \in Range(networkRegions)
       THEN LET config == setInputWidth(networkConfig, TmKey,
                                        networkConfig.tmRegionConfig.regionParams.columnCount)
                regionConfig == config.tmRegionConfig
                regionName == regionConfig.regionName
                network == addRegisteredRegion(regions, regionConfig)
                tmRegion == CHOOSE r \in network : r.name = regionName
            IN /\ networkConfig' = config
               /\ regions' = network
               /\ \E lm \in BOOLEAN, im \in BOOLEAN :
                    parameters' =
                      setParameter(
                        setParameter(createRegion(parameters, regionName, lm, im),
                                     regionName, "computePredictedActiveCellIndices", TRUE),
                        regionName, "anomalyMode", TRUE)
               /\ IF validateRegionWidths(previousRegionWidth, tmRegion.columnCount)
                    THEN /\ links' = linkRegions(links, networkConfig.sensorRegionConfig.regionName,
                                                 previousRegion, regionName)
                         /\ previousRegion' = regionName
                         /\ previousRegionWidth' = tmRegion.columnCount * tmRegion.cellsPerColumn
                         /\ pc' = "tp"
                         /\ UNCHANGED error
                    ELSE /\ error' = WidthError(previousRegionWidth, tmRegion.columnCount)
                         /\ pc' = "raised"
                         /\ UNCHANGED <<links, previousRegion, previousRegionWidth>>
       ELSE /\ pc' = "tp"
            /\ UNCHANGED <<networkConfig, regions, parameters, links, previousRegion,
                           previousRegionWidth, error>>
  /\ UNCHANGED <<inputs, classifierSpec, dataSource, sensorEncoder, networkRegions,
                 calls, returned>>

\* Lines 307-321
CreateTP ==
  /\ pc = "tp"
  /\ IF TpKey \in Range(networkRegions)
       THEN LET config == setInputWidth(networkConfig, TpKey, previousRegionWidth)
                regionConfig == config.tpRegionConfig
                regionName == regionConfig.regionName
                network == addRegisteredRegion(regions, regionConfig)
                tpRegion == CHOOSE r \in network : r.name = regionName
            IN /\ networkConfig' = config
               /\ regions' = network
               /\ \E lm \in BOOLEAN, im \in BOOLEAN :
                    parameters' = createRegion(parameters, regionName, lm, im)
               /\ IF validateRegionWidths(previousRegionWidth, tpRegion.inputWidth)
                    THEN /\ links' = linkRegions(links, networkConfig.sensorRegionConfig.regionName,
                                                 previousRegion, regionName)
                         /\ previousRegion' = regionName
                         /\ pc' = "classifier"
                         /\ UNCHANGED error
                    ELSE /\ error' = WidthError(previousRegionWidth, tpRegion.inputWidth)
                         /\ pc' = "raised"
                         /\ UNCHANGED <<links, previousRegion>>
               /\ UNCHANGED previousRegionWidth
       ELSE /\ pc' = "classifier"
            /\ UNCHANGED <<networkConfig, regions, parameters, links, previousRegion,
                           previousRegionWidth, error>>
  /\ UNCHANGED <<inputs, classifierSpec, dataSource, sensorEncoder, networkRegions,
                 calls, returned>>

\* The links of the classifier (lines 329-341).
linkClassifier(network, sensorRegionName, previousRegionName, regionName, spec) ==
  network \cup
    { PrimaryLink(previousRegionName, regionName),
      Link(sensorRegionName, regionName, "categoryOut", "categoryIn") } \cup
    ( IF "partitionIn" \in spec
        THEN { Link(sensorRegionName, regionName, "sequenceIdOut", "partitionIn") }
        ELSE {} )

\* Lines 323-343; createAndConfigureNetwork then initializes the network
\* (lines 239-240), which changes nothing the factory reads.
CreateClassifier ==
  /\ pc = "classifier"
  /\ LET regionConfig == networkConfig.classifierRegionConfig
         regionName == regionConfig.regionName
     IN /\ regions' = addRegisteredRegion(regions, regionConfig)
        /\ \E lm \in BOOLEAN, im \in BOOLEAN :
             parameters' = createRegion(parameters, regionName, lm, im)
        /\ \E spec \in ClassifierSpecs :
             /\ classifierSpec' = spec
             /\ links' = linkClassifier(links, networkConfig.sensorRegionConfig.regionName,
                                        previousRegion, regionName, spec)
  /\ pc' = "returned"
  /\ UNCHANGED <<inputs, dataSource, networkConfig, error, sensorEncoder, previousRegion,
                 previousRegionWidth, networkRegions, calls, returned>>

\* ------------------------------------------------------- setRegionLearning

\* network.regions[name] for an enabled stage, None for a disabled one.
regionHandle(config, key) ==
  IF Truthy(config[key].regionEnabled) THEN config[key].regionName ELSE "None"

\* A toggle that forgets the temporal-pooling stage.
setLearningModesNoTp(params, config, learningMode) ==
  LET afterSp == IF Truthy(config.spRegionConfig.regionEnabled)
                   THEN setParameter(params, config.spRegionConfig.regionName,
                                     "learningMode", learningMode)
                   ELSE params
      afterTm == IF Truthy(config.tmRegionConfig.regionEnabled)
                   THEN setParameter(afterSp, config.tmRegionConfig.regionName,
                                     "learningMode", learningMode)
                   ELSE afterSp
  IN setParameter(afterTm, config.classifierRegionConfig.regionName,
                  "learningMode", learningMode)

\* The setParameter("learningMode", ...) calls of lines 351-374.
setLearningModes(params, config, learningMode) ==
  LET afterSp == IF Truthy(config.spRegionConfig.regionEnabled)
                   THEN setParameter(params, config.spRegionConfig.regionName,
                                     "learningMode", learningMode)
                   ELSE params
      afterTm == IF Truthy(config.tmRegionConfig.regionEnabled)
                   THEN setParameter(afterSp, config.tmRegionConfig.regionName,
                                     "learningMode", learningMode)
                   ELSE afterSp
      afterTp == IF Truthy(config.tpRegionConfig.regionEnabled)
                   THEN setParameter(afterTm, config.tpRegionConfig.regionName,
                                     "learningMode", learningMode)
                   ELSE afterTm
  IN setParameter(afterTp, config.classifierRegionConfig.regionName,
                  "learningMode", learningMode)

\* The tuple of line 381.
regionHandles(config) ==
  << config.sensorRegionConfig.regionName,
     regionHandle(config, SpKey),
     regionHandle(config, TmKey),
     regionHandle(config, TpKey),
     config.classifierRegionConfig.regionName >>

\* setRegionLearning(network, networkConfig, learningMode) on the network
\* createNetwork returned and the configuration it was built from.
SetRegionLearning ==
  /\ pc = "returned"
  /\ Len(calls) < MaxCalls
  /\ \E learningMode \in BOOLEAN :
       /\ parameters' = setLearningModes(parameters, networkConfig, learningMode)
       /\ calls' = Append(calls, learningMode)
  /\ returned' = regionHandles(networkConfig)
  /\ UNCHANGED <<inputs, classifierSpec, dataSource, networkConfig, pc, error, regions,
                 sensorEncoder, links, previousRegion, previousRegionWidth, networkRegions>>

Next ==
  \/ Configure
  \/ CreateSensor
  \/ ComputeNetworkRegions
  \/ CreateSP
  \/ CreateTM
  \/ CreateTP
  \/ CreateClassifier
  \/ SetRegionLearning

Spec == Init /\ [][Next]_vars

\* ------------------------------------------------------------ properties

Terminated == pc \in {"returned", "raised"}

SensorName == givenConfig.sensorRegionConfig.regionName
SpName == givenConfig.spRegionConfig.regionName
TmName == givenConfig.tmRegionConfig.regionName
TpName == givenConfig.tpRegionConfig.regionName
ClassifierName == givenConfig.classifierRegionConfig.regionName

IsWidthError == error.type = "ValueError" /\ error.what = "Region widths do not fit"

\* Every stage config has its "regionEnabled" key.
FlagsPresent == \A k \in ConfigKeys : givenConfig[k].regionEnabled # "absent"

\* The configuration names its encoders in a non-empty dict.
EncodersConfigured ==
  /\ givenConfig.sensorRegionConfig.encoders.kind = "dict"
  /\ ~Falsy(givenConfig.sensorRegionConfig.encoders)

\* The output width of the stage upstream of the temporal-memory stage.
TmUpstreamWidth ==
  IF SpName \in RegionNames THEN Region(SpName).columnCount ELSE sensorEncoder.width

\* C1 (as amended): the width-mismatch ValueError is raised exactly when the
\* temporal-memory stage has been created with a columnCount that differs
\* from the output width of the stage upstream of it; the error carries both
\* widths, the TM stage is then in the network without any link, and neither
\* the TP nor the classifier stage has been created.  The inputWidth of a
\* created SP or TP stage is the upstream width the factory wrote, whatever
\* the configuration declared.
C1_WidthErrorAtTmJoin ==
  /\ IsWidthError <=>
       (TmName \in RegionNames /\ TmUpstreamWidth # Region(TmName).columnCount)
  /\ IsWidthError =>
       /\ pc = "raised"
       /\ error.out = TmUpstreamWidth
       /\ error.inp = Region(TmName).columnCount
       /\ RegionNames \cap {TpName, ClassifierName} = {}
       /\ ~\E l \in links : l.dest = TmName
  /\ SpName \in RegionNames => Region(SpName).inputWidth = sensorEncoder.width
  /\ TpName \in RegionNames => Region(TpName).inputWidth = previousRegionWidth

C1_Witness ==
  /\ IsWidthError
  /\ SpName \in RegionNames
  /\ givenConfig.tpRegionConfig.regionEnabled = "true"

\* The width a stage config declares for its input: inputWidth for SP and TP,
\* columnCount for TM (the width the factory compares).
DeclaredInputWidth(key) ==
  IF key = TmKey THEN givenConfig[key].regionParams.columnCount
                 ELSE givenConfig[key].regionParams.inputWidth

\* A join sensor -> SP or SP -> TM whose two sides are declared with
\* different widths in the configuration as given.
DeclaredMismatch ==
  /\ EncodersConfigured
  /\ Truthy(givenConfig.spRegionConfig.regionEnabled)
  /\ \/ DeclaredInputWidth(SpKey) #
          givenConfig.sensorRegionConfig.encoders.scalarEncoder.n
          + givenConfig.sensorRegionConfig.encoders.otherEncoder.n
     \/ /\ Truthy(givenConfig.tmRegionConfig.regionEnabled)
        /\ DeclaredInputWidth(TmKey) # givenConfig.spRegionConfig.regionParams.columnCount

\* C1 (as claimed): a configuration whose consecutive enabled stages declare
\* mismatched widths makes createNetwork fail with the width-mismatch
\* ValueError, with no stage after the mismatch created.
C1_Original ==
  (FlagsPresent /\ DeclaredMismatch /\ Terminated) =>
     /\ pc = "raised"
     /\ IsWidthError
     /\ ClassifierName \notin RegionNames

\* C2 (as claimed): with SP, TM and TP disabled and no enabled flag on the
\* sensor and classifier configs, createNetwork succeeds with exactly the
\* sensor and the classifier, linked directly, with the category link and,
\* exactly when the classifier's spec has partitionIn, the partition link.
C2_Claim ==
  ( /\ entry = "createNetwork"
    /\ EncodersConfigured
    /\ \A k \in OptionalKeys : ~Truthy(givenConfig[k].regionEnabled)
    /\ givenConfig.sensorRegionConfig.regionEnabled = "absent"
    /\ givenConfig.classifierRegionConfig.regionEnabled = "absent"
    /\ Terminated )
  => /\ pc = "returned"
     /\ RegionNames = {SensorName, ClassifierName}
     /\ links = { PrimaryLink(SensorName, ClassifierName),
                  Link(SensorName, ClassifierName, "categoryOut", "categoryIn") }
                \cup ( IF "partitionIn" \in classifierSpec
                         THEN { Link(SensorName, ClassifierName,
                                     "sequenceIdOut", "partitionIn") }
                         ELSE {} )

\* C3 (as claimed): an externally constructed encoder, given with an encoder
\* mapping that is absent, None or empty, yields a network whose sensor holds
\* that very encoder.  (Runs that end in the width error or lack an enabled
\* flag are left aside: they fail for another reason.)
C3_Claim ==
  ( /\ encoder.kind = "external"
    /\ Falsy(givenConfig.sensorRegionConfig.encoders)
    /\ FlagsPresent
    /\ ~IsWidthError
    /\ Terminated )
  => /\ pc = "returned"
     /\ sensorEncoder = encoder

\* C4 (as claimed): encoders that are present, non-empty and not a mapping
\* raise a TypeError before any stage, the sensor included, is in the network.
C4_Claim ==
  (givenConfig.sensorRegionConfig.encoders.kind = "list" /\ Terminated) =>
     /\ pc = "raised"
     /\ error.type = "TypeError"
     /\ regions = {}

LearningMode(region) == getParameter(parameters, region, "learningMode")

\* C6: after a call of setRegionLearning every non-sensor stage of the
\* network reads the learningMode of that call (false after a call with
\* false, true after a following call with true), no parameter of the sensor
\* has been touched, and the call returned sensor, SP, TM, TP, classifier in
\* this order, with None in the place of each stage the network lacks.
C6_LearningToggle ==
  /\ \A t \in parameters : t[1] # SensorName
  /\ calls # <<>> =>
       /\ \A r \in RegionNames \ {SensorName} : LearningMode(r) = calls[Len(calls)]
       /\ returned = << SensorName,
                        IF SpName \in RegionNames THEN SpName ELSE "None",
                        IF TmName \in RegionNames THEN TmName ELSE "None",
                        IF TpName \in RegionNames THEN TpName ELSE "None",
                        ClassifierName >>

\* A fully enabled network after setRegionLearning(false), then (true).
C6_Witness ==
  /\ calls = <<FALSE, TRUE>>
  /\ RegionNames = {SensorName, SpName, TmName, TpName, ClassifierName}
  /\ \A r \in RegionNames \ {SensorName} : LearningMode(r) = TRUE
  /\ returned = <<SensorName, SpName, TmName, TpName, ClassifierName>>

\* The stages a returned network is to hold, in assembly order: the sensor,
\* the optional stages the given configuration enables, the classifier.
Chain ==
  <<SensorName>>
  \o (IF Truthy(givenConfig.spRegionConfig.regionEnabled) THEN <<SpName>> ELSE <<>>)
  \o (IF Truthy(givenConfig.tmRegionConfig.regionEnabled) THEN <<TmName>> ELSE <<>>)
  \o (IF Truthy(givenConfig.tpRegionConfig.regionEnabled) THEN <<TpName>> ELSE <<>>)
  \o <<ClassifierName>>

PrimaryLinks == {l \in links : l.srcOutput = "" /\ l.destInput = ""}

\* The width a stage of the network puts out, for the stages that have one.
OutputWidth(name) ==
  IF name = SensorName THEN sensorEncoder.width
  ELSE IF name = SpName THEN Region(name).columnCount
  ELSE Region(name).columnCount * Region(name).cellsPerColumn

\* The width a stage of the network takes in; the temporal-memory stage
\* takes its columnCount, which is also the inputWidth it was built with.
InputWidth(name) ==
  IF name = TmName THEN Region(name).columnCount ELSE Region(name).inputWidth

\* C7: a returned network holds exactly one sensor and one classifier; its
\* primary links are exactly the links of the chain sensor, enabled optional
\* stages in the order SP, TM, TP, classifier, so each non-sensor stage has
\* one incoming primary link, from its predecessor; and at each join into an
\* SP, TM or TP stage the upstream output width is the stage's input width
\* (the classifier has no width the factory reads).
C7_Chain ==
  pc = "returned" =>
    /\ Cardinality({r \in regions : r.name = SensorName}) = 1
    /\ Cardinality({r \in regions : r.name = ClassifierName}) = 1
    /\ Cardinality(regions) = Len(Chain)
    /\ RegionNames = Range(Chain)
    /\ PrimaryLinks = {PrimaryLink(Chain[i], Chain[i + 1]) : i \in 1..(Len(Chain) - 1)}
    /\ \A i \in 2..(Len(Chain) - 1) :
         /\ OutputWidth(Chain[i - 1]) = InputWidth(Chain[i])
         /\ Chain[i] = TmName => Region(TmName).inputWidth = Region(TmName).columnCount

\* A returned network of all five stages, built from a configuration whose
\* keys are not listed in assembly order.
C7_Witness ==
  /\ pc = "returned"
  /\ Len(Chain) = 5
  /\ keyOrder[1] # SensorKey
  /\ OutputWidth(TmName) > Region(TmName).columnCount

HasSideLink(dest, srcOutput, destInput) ==
  Link(SensorName, dest, srcOutput, destInput) \in links

\* C8 (as claimed): in a returned network every stage downstream of the
\* sensor, the classifier included, has the sensor's resetOut linked to its
\* resetIn and the sensor's sequenceIdOut linked to its sequenceIdIn.
C8_Original ==
  pc = "returned" =>
    \A r \in RegionNames \ {SensorName} :
      /\ HasSideLink(r, "resetOut", "resetIn")
      /\ HasSideLink(r, "sequenceIdOut", "sequenceIdIn")

\* C8 (as amended): in a returned network every SP, TM and TP stage has the
\* sensor's resetOut linked to its resetIn and the sensor's sequenceIdOut
\* linked to its sequenceIdIn; the classifier has neither: besides its
\* primary link it has the categoryOut -> categoryIn link and, exactly when
\* its spec has partitionIn, the sequenceIdOut -> partitionIn link.
C8_SideChannels ==
  pc = "returned" =>
    /\ \A r \in RegionNames \ {SensorName, ClassifierName} :
         {l \in links : l.dest = r /\ l \notin PrimaryLinks} =
           { Link(SensorName, r, "resetOut", "resetIn"),
             Link(SensorName, r, "sequenceIdOut", "sequenceIdIn") }
    /\ {l \in links : l.dest = ClassifierName /\ l \notin PrimaryLinks} =
         { Link(SensorName, ClassifierName, "categoryOut", "categoryIn") } \cup
         ( IF "partitionIn" \in classifierSpec
             THEN { Link(SensorName, ClassifierName, "sequenceIdOut", "partitionIn") }
             ELSE {} )

\* A returned network with all three optional stages and a classifier that
\* has a partitionIn input.
C8_Witness ==
  /\ pc = "returned"
  /\ {SpName, TmName, TpName} \subseteq RegionNames
  /\ "partitionIn" \in classifierSpec
  /\ HasSideLink(TpName, "resetOut", "resetIn")
  /\ ~HasSideLink(ClassifierName, "resetOut", "resetIn")

\* C9 (as claimed): once the sensor stage exists, no step changes the
\* configuration.
C9_Original == [][regions # {} => networkConfig' = networkConfig]_vars

\* A stage config with its regionParams["inputWidth"] left out of account.
ExceptInputWidth(stageConfig) ==
  [stageConfig EXCEPT !.regionParams.inputWidth = NoVal]

\* A sensor config with the scalar encoder's minval and maxval left out of
\* account.
ExceptMinMax(sensorConfig) ==
  [sensorConfig EXCEPT !.encoders.scalarEncoder.minval = NoVal,
                       !.encoders.scalarEncoder.maxval = NoVal]

\* C9 (as amended): before any stage exists the only write to the
\* configuration is the scalar encoder's minval and maxval; once the sensor
\* stage exists the only writes are to regionParams["inputWidth"] of an
\* enabled SP, TM or TP stage, each made in the step that creates that stage
\* (SP: the encoder's width, TM: its columnCount, TP: the upstream width);
\* the sensor and classifier configs and every other entry stay as they were.
C9_ConfigWrites ==
  [][ /\ regions = {} =>
           /\ ExceptMinMax(networkConfig.sensorRegionConfig)' =
                ExceptMinMax(networkConfig.sensorRegionConfig)
           /\ \A k \in ConfigKeys \ {SensorKey} : networkConfig'[k] = networkConfig[k]
      /\ regions # {} =>
           /\ networkConfig'.sensorRegionConfig = networkConfig.sensorRegionConfig
           /\ networkConfig'.classifierRegionConfig = networkConfig.classifierRegionConfig
           /\ \A k \in OptionalKeys :
                /\ ExceptInputWidth(networkConfig'[k]) = ExceptInputWidth(networkConfig[k])
                /\ networkConfig'[k] # networkConfig[k] =>
                     /\ Truthy(givenConfig[k].regionEnabled)
                     /\ networkConfig[k].regionName \notin RegionNames
                     /\ networkConfig[k].regionName \in RegionNames'
                     /\ networkConfig'[k].regionParams.inputWidth =
                          IF k = SpKey THEN sensorEncoder.width
                          ELSE IF k = TmKey THEN networkConfig[k].regionParams.columnCount
                          ELSE previousRegionWidth
    ]_vars

\* A network under assembly whose configuration no longer has the inputWidth
\* it was given for the SP and for the TP stage.
C9_Witness ==
  /\ SensorName \in RegionNames
  /\ networkConfig.spRegionConfig.regionParams.inputWidth
       # givenConfig.spRegionConfig.regionParams.inputWidth
  /\ networkConfig.tpRegionConfig.regionParams.inputWidth
       # givenConfig.tpRegionConfig.regionParams.inputWidth
  /\ networkConfig.sensorRegionConfig.encoders.scalarEncoder.minval
       # givenConfig.sensorRegionConfig.encoders.scalarEncoder.minval

InferenceMode(region) == getParameter(parameters, region, "inferenceMode")

\* C10: every non-sensor stage of the network has inferenceMode true, and
\* learningMode false as long as setRegionLearning has not been called; a
\* step changes the learningMode of a stage only if it is a call of
\* setRegionLearning, and no step leaves a stage with inferenceMode false.
C10_Modes ==
  /\ [](\A r \in RegionNames \ {SensorName} :
          /\ HasParameter(parameters, r, "learningMode")
          /\ HasParameter(parameters, r, "inferenceMode")
          /\ InferenceMode(r) = TRUE
          /\ calls = <<>> => LearningMode(r) = FALSE)
  /\ [][\A r \in (RegionNames \cap RegionNames') \ {SensorName} :
          /\ LearningMode(r)' # LearningMode(r) => Len(calls') = Len(calls) + 1
          /\ InferenceMode(r)' = TRUE]_vars

\* A returned network of five stages on which setRegionLearning has not been
\* called yet.
C10_Witness ==
  /\ pc = "returned"
  /\ calls = <<>>
  /\ Cardinality(RegionNames) = 5
  /\ \A r \in RegionNames \ {SensorName} : LearningMode(r) = FALSE /\ InferenceMode(r) = TRUE

====
